---- MODULE Spec2Model ----
(***************************************************************************)
(* Model of scripts/sync-marketplace.cjs: the directory synchronizer       *)
(* (syncDir = mkdir, cleanDestination, copyDir) on directory trees, and    *)
(* the top-level run (branch guard, marketplace sync, npm install, version *)
(* read, cache sync, worker restart request).                              *)
(***************************************************************************)
EXTENDS Integers, Sequences, FiniteSets, TLC

(***************************************************************************)
(* Bounds of the explored directory trees.                                 *)
(***************************************************************************)
MaxDepth == 2
MaxNodes == 2
MaxContent == 2

\* Entry names that occur in the trees.  ".git" is the version-control
\* directory the script excludes; "plugin" is the sub-directory it mirrors
\* into the cache.
Names == {"plugin", ".git"}
Contents == 1..MaxContent

(***************************************************************************)
(* Directory trees.  A node is a file with a content, a directory with a   *)
(* map from names to nodes, or Absent (no entry at that path).             *)
(***************************************************************************)
NoEntries == [n \in {} |-> 0]
Absent == [kind |-> "none", content |-> 0, entries |-> NoEntries]
File(c) == [kind |-> "file", content |-> c, entries |-> NoEntries]
Dir(e) == [kind |-> "dir", content |-> 0, entries |-> e]

Exists(node) == node.kind # "none"
IsDirectory(node) == node.kind = "dir"

\* The node named n inside directory node d (Absent when there is none).
Child(d, n) == IF IsDirectory(d) /\ n \in DOMAIN d.entries THEN d.entries[n] ELSE Absent

\* Directory d with the entry n set to node c, or removed when c is Absent.
WithChild(d, n, c) ==
    Dir([m \in (IF Exists(c) THEN DOMAIN d.entries \cup {n} ELSE DOMAIN d.entries \ {n}) |->
            IF m = n THEN c ELSE d.entries[m]])

RECURSIVE Lookup(_, _)
Lookup(node, p) ==
    IF p = <<>> THEN node ELSE Lookup(Child(node, Head(p)), Tail(p))

RECURSIVE Size(_)
RECURSIVE SumSizes(_, _)
SumSizes(e, ns) ==
    IF ns = {} THEN 0
    ELSE LET n == CHOOSE x \in ns : TRUE IN 1 + Size(e[n]) + SumSizes(e, ns \ {n})
Size(node) == IF IsDirectory(node) THEN SumSizes(node.entries, DOMAIN node.entries) ELSE 0

\* All directories whose entries lie at most d levels deep and that hold at
\* most k entries in all.
RECURSIVE DirsOf(_, _)
DirsOf(d, k) ==
    IF d = 0 THEN {Dir(NoEntries)}
    ELSE LET sub == {File(c) : c \in Contents} \cup DirsOf(d - 1, k)
             all == UNION {[ns -> sub] : ns \in SUBSET Names}
         IN {t \in {Dir(e) : e \in all} : Size(t) <= k}

\* The source is an existing directory; the destination may not exist yet.
SrcTrees == DirsOf(MaxDepth, MaxNodes)
DstTrees == DirsOf(MaxDepth, MaxNodes) \cup {Absent}

\* Exclusion sets of a syncDir call.
ExcludeSets == SUBSET Names

AllPaths == UNION {[1..k -> Names] : k \in 1..MaxDepth}
ReadOrders == {s \in [1..Cardinality(Names) -> Names] : \A n \in Names : \E i \in DOMAIN s : s[i] = n}

(***************************************************************************)
(* cleanDestination: phase 1 of syncDir.                                   *)
(***************************************************************************)
\* excludeSet.has(entry)
ExcludeSetHas(E, entry) == entry \in E

\* Variant: the prune never descends into a directory present on both sides.
BothDirectoriesNever(destNode, srcNode) == FALSE

\* statSync(destPath).isDirectory() && statSync(srcPath).isDirectory()
BothDirectories(destNode, srcNode) == IsDirectory(destNode) /\ IsDirectory(srcNode)

\* Variant: removing a non-empty directory only empties it.
RmSyncShallow(destNode) ==
    IF IsDirectory(destNode) /\ DOMAIN destNode.entries # {} THEN Dir(NoEntries) ELSE Absent

\* rmSync(destPath, {recursive: true, force: true}): the entry and all below it go.
RmSync(destNode) == Absent

RECURSIVE CleanDestination(_, _, _)
CleanDestination(s, d, E) ==
    IF ~Exists(d) THEN d
    ELSE LET CleanEntry(entry) ==
                 IF ExcludeSetHas(E, entry) THEN d.entries[entry]
                 ELSE IF ~Exists(Child(s, entry)) THEN RmSync(d.entries[entry])
                 ELSE IF BothDirectories(d.entries[entry], Child(s, entry))
                      THEN CleanDestination(Child(s, entry), d.entries[entry], E)
                 ELSE d.entries[entry]
         IN Dir([entry \in {m \in DOMAIN d.entries : Exists(CleanEntry(m))} |-> CleanEntry(entry)])

(***************************************************************************)
(* copyDir: phase 2 of syncDir, a filtered recursive force copy (cpSync).  *)
(***************************************************************************)
\* Variant: the copy runs without a filter.
CopyFilterNone(name, isRoot, E) == TRUE

\* The filter callback: the root source directory is always allowed, any
\* other path is allowed unless its base name is excluded.
CopyFilter(name, isRoot, E) == isRoot \/ ~ExcludeSetHas(E, name)

\* cpSync never copies a directory onto an existing non-directory
\* (ERR_FS_CP_DIR_TO_NON_DIR) nor a non-directory onto an existing directory
\* (ERR_FS_CP_NON_DIR_TO_DIR), force or not: the copy throws.
KindClash(srcNode, destNode) == Exists(destNode) /\ (IsDirectory(srcNode) # IsDirectory(destNode))

\* Variant: force: false, an existing destination file is kept.
CopyFileNoForce(srcNode, destNode) == IF Exists(destNode) THEN destNode ELSE File(srcNode.content)

\* force: true, an existing destination file is replaced by the source file.
CopyFile(srcNode, destNode) == File(srcNode.content)

\* The entries of a source directory in the order the directory is read.
ReadDir(s, ord) == SelectSeq(ord, LAMBDA n : n \in DOMAIN s.entries)

\* Result of a copy: the destination node afterwards, and whether the copy
\* completed (ok) or threw part-way, leaving what was copied so far.
RECURSIVE CpNode(_, _, _, _, _, _)
RECURSIVE CpEntries(_, _, _, _, _)
CpNode(s, d, name, isRoot, E, ord) ==
    IF ~CopyFilter(name, isRoot, E) THEN [node |-> d, ok |-> TRUE]
    ELSE IF KindClash(s, d) THEN [node |-> d, ok |-> FALSE]
    ELSE IF IsDirectory(s)
         THEN CpEntries(s, IF Exists(d) THEN d ELSE Dir(NoEntries), ReadDir(s, ord), E, ord)
    ELSE [node |-> CopyFile(s, d), ok |-> TRUE]
CpEntries(s, d, todo, E, ord) ==
    IF todo = <<>> THEN [node |-> d, ok |-> TRUE]
    ELSE LET n == Head(todo)
             r == CpNode(s.entries[n], Child(d, n), n, FALSE, E, ord)
         IN IF r.ok THEN CpEntries(s, WithChild(d, n, r.node), Tail(todo), E, ord)
            ELSE [node |-> WithChild(d, n, r.node), ok |-> FALSE]

CopyDir(s, d, rootName, E, ord) == CpNode(s, d, rootName, TRUE, E, ord)

\* mkdirSync(dest, {recursive: true})
MkdirP(d) == IF Exists(d) THEN d ELSE Dir(NoEntries)

(***************************************************************************)
(* The top-level run: branch guard, version read, restart request.         *)
(***************************************************************************)
MarketplaceExcludes == {".git", ".mcp.json"}
CacheExcludes == {".git"}

\* What `git rev-parse --abbrev-ref HEAD` can give in the installed
\* directory: a branch name, or a failure (spawn failure, non-zero exit).
GitOutcomes == {"main", "beta-x", "error"}
Null == "<null>"

\* getCurrentBranch(): null without .git or when the command throws,
\* otherwise the trimmed output.
GetCurrentBranch(installed, git) ==
    IF ~Exists(Child(installed, ".git")) THEN Null
    ELSE IF git = "error" THEN Null
    ELSE git

\* Variant: the guard ignores --force.
GuardRejectsIgnoringForce(branch, force) == branch # Null /\ branch # "" /\ branch # "main"

\* Variant: the guard does not test that a branch was obtained.
GuardRejectsWithoutBranch(branch, force) == branch # "main" /\ ~force

\* branch && branch !== 'main' && !isForce
GuardRejects(branch, force) == branch # Null /\ branch # "" /\ branch # "main" /\ ~force

\* The manifest plugin/.claude-plugin/plugin.json as the version read finds
\* it.  It lies below the source's plugin directory, so it can only be read
\* when that directory exists.
Manifests == {"missing", "malformed", "noversion", "ok"}
ManifestsOf(s) == IF IsDirectory(Child(s, "plugin")) THEN Manifests ELSE {"missing"}

Undefined == "<undefined>"

\* getPluginVersion(): the version field of the parsed manifest, which is
\* undefined when the manifest has none; a read or parse error ends the
\* process with code 1.
GetPluginVersion(m) ==
    IF m \in {"missing", "malformed"} THEN [exits |-> TRUE, version |-> Undefined]
    ELSE IF m = "noversion" THEN [exits |-> FALSE, version |-> Undefined]
    ELSE [exits |-> FALSE, version |-> "1.0.0"]

\* Variant: joining the cache path accepts an undefined version.
PathJoinNeverThrows(version) == FALSE

\* path.join(CACHE_BASE_PATH, version) throws unless version is a string.
PathJoinThrows(version) == version = Undefined

\* syncDir as one call.
SyncDir(s, d, rootName, E, ord) == CopyDir(s, CleanDestination(s, MkdirP(d), E), rootName, E, ord)

\* Variant: the timeout handler does not destroy the request.
TimeoutHandlerKeeps(r) == r

\* req.on('timeout'): req.destroy().  A request destroyed before any
\* response still has its hang-up error to deliver; an answered one is
\* simply closed.
TimeoutHandler(r) == IF r = "pending" THEN "destroyed" ELSE "closed"

\* Installed and cache directories of the run: one level of entries; the
\* cache directory holds no .git.
Flat(t) == \A n \in DOMAIN t.entries : Size(t.entries[n]) = 0
InstalledTrees == {t \in DstTrees : Flat(t)}
CacheTrees == {t \in InstalledTrees : ~Exists(Child(t, ".git"))}

RootNames == Names \cup {"claude-mem"}

VARIABLES
    src,        \* the source tree
    src0,       \* the source tree before the first call
    dst,        \* the destination tree (the installed marketplace directory)
    excl,       \* the excludes of the syncDir call
    order,      \* the order in which a source directory is read
    pc,         \* position in syncDir, or in the run
    run,        \* 1 in the first syncDir call, 2 in the second
    dst0,       \* the destination before the first call
    dst1,       \* the destination after the first call
    cache,      \* the versioned cache directory
    cache0,     \* the cache directory before the run
    isForce,    \* --force was given
    gitResult,  \* outcome of the branch query ("notrun" when none was made)
    manifest,   \* the manifest as read ("unread" before the version read)
    log,        \* the steps of the run so far, each with its success
    exitCode,   \* the exit code of the process
    req,        \* state of the restart request
    outcome,    \* first outcome of the restart request
    requests    \* number of restart requests sent

syncVars == <<src, src0, dst, excl, order, pc, run, dst0, dst1>>
runVars == <<cache, cache0, isForce, gitResult, manifest, log, exitCode, req, outcome, requests>>
vars == <<syncVars, runVars>>

RunIdle ==
    /\ cache = Absent /\ cache0 = Absent
    /\ isForce = FALSE /\ gitResult = "notrun" /\ manifest = "unread"
    /\ log = <<>> /\ exitCode = 0
    /\ req = "none" /\ outcome = "none" /\ requests = 0

Init ==
    /\ src \in SrcTrees
    /\ dst \in DstTrees
    /\ excl \in ExcludeSets
    /\ order \in ReadOrders
    /\ pc = "start"
    /\ run = 1
    /\ src0 = src
    /\ dst0 = dst
    /\ dst1 = Absent
    /\ RunIdle

(***************************************************************************)
(* syncDir(src, dest, excludes), one action per statement, and a second    *)
(* call on the result of the first with the source unchanged.              *)
(***************************************************************************)
SyncMkdir ==
    /\ pc = "start"
    /\ dst' = MkdirP(dst)
    /\ pc' = "clean"
    /\ UNCHANGED <<src, src0, excl, order, run, dst0, dst1, runVars>>

SyncClean ==
    /\ pc = "clean"
    /\ dst' = CleanDestination(src, dst, excl)
    /\ pc' = "copy"
    /\ UNCHANGED <<src, src0, excl, order, run, dst0, dst1, runVars>>

SyncCopy ==
    /\ pc = "copy"
    /\ \E rootName \in RootNames :
           LET r == CopyDir(src, dst, rootName, excl, order)
           IN /\ dst' = r.node
              /\ pc' = IF r.ok THEN "done" ELSE "failed"
    /\ UNCHANGED <<src, src0, excl, order, run, dst0, dst1, runVars>>

SyncAgain ==
    /\ pc \in {"done", "failed"}
    /\ run = 1
    /\ run' = 2
    /\ dst1' = dst
    /\ pc' = "start"
    /\ UNCHANGED <<src, src0, dst, excl, order, dst0, runVars>>

Next == SyncMkdir \/ SyncClean \/ SyncCopy \/ SyncAgain

Spec == Init /\ [][Next]_vars

(***************************************************************************)
(* The run of the script.                                                  *)
(***************************************************************************)
RunInit ==
    /\ src \in SrcTrees
    /\ dst \in InstalledTrees
    /\ cache \in CacheTrees
    /\ excl = MarketplaceExcludes
    /\ order = <<>>
    /\ pc = "guard"
    /\ run = 1
    /\ src0 = src
    /\ dst0 = dst
    /\ dst1 = Absent
    /\ cache0 = cache
    /\ isForce = FALSE /\ gitResult = "notrun" /\ manifest = "unread"
    /\ log = <<>> /\ exitCode = 0
    /\ req = "none" /\ outcome = "none" /\ requests = 0

Logged(step, ok) == Append(log, [step |-> step, ok |-> ok])

\* The statement after a step: the next step, or process.exit(1).
After(ok, next) ==
    /\ pc' = IF ok THEN next ELSE "exited"
    /\ exitCode' = IF ok THEN exitCode ELSE 1

\* getCurrentBranch() and the guard.
RunGuard ==
    /\ pc = "guard"
    /\ \E force \in BOOLEAN :
       \E git \in (IF Exists(Child(dst, ".git")) THEN GitOutcomes ELSE {"notrun"}) :
           /\ isForce' = force
           /\ gitResult' = git
           /\ After(~GuardRejects(GetCurrentBranch(dst, git), force), "sync")
    /\ UNCHANGED <<src, src0, dst, excl, order, run, dst0, dst1>>
    /\ UNCHANGED <<cache, cache0, manifest, log, req, outcome, requests>>

\* syncDir(srcDir, INSTALLED_PATH, ['.git', '.mcp.json'])
RunMarketplaceSync ==
    /\ pc = "sync"
    /\ \E ord \in ReadOrders, rootName \in RootNames :
           LET r == SyncDir(src, dst, rootName, MarketplaceExcludes, ord)
           IN /\ dst' = r.node
              /\ log' = Logged("sync", r.ok)
              /\ After(r.ok, "npm")
    /\ UNCHANGED <<src, src0, excl, order, run, dst0, dst1>>
    /\ UNCHANGED <<cache, cache0, isForce, gitResult, manifest, req, outcome, requests>>

\* execSync('npm install'): throws when the installer fails.
RunNpmInstall ==
    /\ pc = "npm"
    /\ \E ok \in BOOLEAN :
           /\ log' = Logged("npm", ok)
           /\ After(ok, "version")
    /\ UNCHANGED <<src, src0, dst, excl, order, run, dst0, dst1>>
    /\ UNCHANGED <<cache, cache0, isForce, gitResult, manifest, req, outcome, requests>>

\* getPluginVersion() and the join of the cache path.
RunReadVersion ==
    /\ pc = "version"
    /\ \E m \in ManifestsOf(src) :
           LET v == GetPluginVersion(m)
               ok == ~v.exits /\ ~PathJoinThrows(v.version)
           IN /\ manifest' = m
              /\ log' = Logged("version", ok)
              /\ After(ok, "cache")
    /\ UNCHANGED <<src, src0, dst, excl, order, run, dst0, dst1>>
    /\ UNCHANGED <<cache, cache0, isForce, gitResult, req, outcome, requests>>

\* syncDir(pluginDir, CACHE_VERSION_PATH, ['.git'])
RunCacheSync ==
    /\ pc = "cache"
    /\ \E ord \in ReadOrders :
           LET r == SyncDir(Child(src, "plugin"), cache, "plugin", CacheExcludes, ord)
           IN /\ cache' = r.node
              /\ log' = Logged("cache", r.ok)
              /\ After(r.ok, "notify")
    /\ excl' = CacheExcludes
    /\ UNCHANGED <<src, src0, dst, order, run, dst0, dst1>>
    /\ UNCHANGED <<cache0, isForce, gitResult, manifest, req, outcome, requests>>

\* http.request(...), the listeners, req.end(): the script's last statement.
RunNotify ==
    /\ pc = "notify"
    /\ req' = "pending"
    /\ requests' = requests + 1
    /\ log' = Logged("notify", TRUE)
    /\ pc' = "waiting"
    /\ UNCHANGED <<src, src0, dst, excl, order, run, dst0, dst1>>
    /\ UNCHANGED <<cache, cache0, isForce, gitResult, manifest, exitCode, outcome>>

\* The response callback: logs the status, leaves the response unread.
OnResponse ==
    /\ pc = "waiting" /\ req = "pending"
    /\ \E status \in {"200", "non-200"} : outcome' = status
    /\ req' = "responded"
    /\ UNCHANGED <<syncVars, cache, cache0, isForce, gitResult, manifest, log, exitCode, requests>>

\* The 'error' listener: a connection error, or the hang-up that follows
\* the destruction of a request that got no response.
OnError ==
    /\ pc = "waiting" /\ req \in {"pending", "destroyed"}
    /\ outcome' = IF outcome = "none" THEN "error" ELSE outcome
    /\ req' = "closed"
    /\ UNCHANGED <<syncVars, cache, cache0, isForce, gitResult, manifest, log, exitCode, requests>>

\* The 'timeout' listener: the socket has been idle for the timeout.
OnTimeout ==
    /\ pc = "waiting" /\ req \in {"pending", "responded"}
    /\ outcome' = IF outcome = "none" THEN "timeout" ELSE outcome
    /\ req' = TimeoutHandler(req)
    /\ UNCHANGED <<syncVars, cache, cache0, isForce, gitResult, manifest, log, exitCode, requests>>

\* The server closes the connection of an answered request.
OnServerClose ==
    /\ pc = "waiting" /\ req = "responded"
    /\ req' = "closed"
    /\ UNCHANGED <<syncVars, cache, cache0, isForce, gitResult, manifest, log, exitCode, outcome, requests>>

\* Nothing is left to wait for: the process ends with its exit code.
ProcessExit ==
    /\ pc = "waiting" /\ req = "closed"
    /\ pc' = "exited"
    /\ UNCHANGED <<src, src0, dst, excl, order, run, dst0, dst1, runVars>>

Script ==
    \/ RunGuard
    \/ RunMarketplaceSync
    \/ RunNpmInstall
    \/ RunReadVersion
    \/ RunCacheSync
    \/ RunNotify

RunNext == Script \/ OnResponse \/ OnError \/ OnTimeout \/ OnServerClose \/ ProcessExit

RunSpec == RunInit /\ [][RunNext]_vars

\* The script's last statement runs once it is reached, a timer fires, a
\* destroyed request delivers its hang-up, and a process with nothing left
\* to wait for ends.  The worker answering, refusing or closing the
\* connection is not assumed.
HangUp == req = "destroyed" /\ OnError
RunFair ==
    /\ RunSpec
    /\ WF_vars(RunNotify)
    /\ WF_vars(OnTimeout)
    /\ WF_vars(HangUp)
    /\ WF_vars(ProcessExit)

(***************************************************************************)
(* Vocabulary of the properties.                                           *)
(***************************************************************************)
Last(p) == p[Len(p)]
NoExcludedComponent(p, E) == \A i \in 1..Len(p) : p[i] \notin E
ProperPrefixes(p) == {SubSeq(p, 1, k) : k \in 1..(Len(p) - 1)}
SameEntry(a, b) == a.kind = b.kind /\ (a.kind = "file" => a.content = b.content)
SyncReturned == pc = "done"
SyncFinished == pc \in {"done", "failed"}

\* C1: after syncDir returns, every source entry whose path has no excluded
\* component exists in the destination at the same path with the same kind
\* and, for a file, the same content.
C1_SourceMirrored ==
    SyncReturned =>
        \A p \in AllPaths :
            (Exists(Lookup(src, p)) /\ NoExcludedComponent(p, excl))
                => SameEntry(Lookup(src, p), Lookup(dst, p))

\* A first sync returned with a non-empty exclusion set and copied a nested
\* entry that the destination did not hold in that form.
C1_Witness ==
    /\ pc = "done" /\ run = 1 /\ excl # {}
    /\ \E p \in AllPaths :
           /\ Len(p) = 2 /\ NoExcludedComponent(p, excl)
           /\ Exists(Lookup(src, p))
           /\ ~SameEntry(Lookup(src, p), Lookup(dst0, p))

\* C2 as stated: after syncDir, every destination entry whose own name is not
\* excluded has a counterpart in the source at the same path.
C2_NameNotExcludedHasCounterpart ==
    SyncReturned =>
        \A p \in AllPaths :
            (Exists(Lookup(dst, p)) /\ Last(p) \notin excl) => Exists(Lookup(src, p))

\* C2 amended: after syncDir returns, every destination entry whose path has
\* no excluded component has a counterpart in the source at the same path.
C2_PathNotExcludedHasCounterpart ==
    SyncReturned =>
        \A p \in AllPaths :
            (Exists(Lookup(dst, p)) /\ NoExcludedComponent(p, excl)) => Exists(Lookup(src, p))

\* A first sync returned after pruning an orphan nested in a directory that
\* exists on both sides.
C2_Witness ==
    /\ pc = "done" /\ run = 1
    /\ \E p \in AllPaths :
           /\ Len(p) = 2 /\ NoExcludedComponent(p, excl)
           /\ Exists(Lookup(dst0, p)) /\ ~Exists(Lookup(src, p))
           /\ IsDirectory(Lookup(src, <<p[1]>>))
           /\ ~Exists(Lookup(dst, p))

\* C3: no step of syncDir deletes an entry with an excluded name from the
\* destination or creates one in it, at any depth.
C3_ExcludedNeverDeletedNorCreated ==
    [][\A p \in AllPaths :
           Last(p) \in excl => (Exists(Lookup(dst, p)) <=> Exists(Lookup(dst', p)))]_vars

\* C6: a second syncDir with the source unchanged leaves the destination as
\* the first one left it.
C6_Idempotent == (run = 2 /\ SyncFinished) => dst = dst1

\* Two syncs returned and the first one both pruned and copied.
C6_Witness ==
    /\ run = 2 /\ pc = "done"
    /\ \E p \in AllPaths : Exists(Lookup(dst0, p)) /\ ~Exists(Lookup(dst1, p))
    /\ \E p \in AllPaths : ~Exists(Lookup(dst0, p)) /\ Exists(Lookup(dst1, p))

\* The entry at path p is reached by both phases: no component is excluded
\* and every directory above it is a directory on both sides.
Reached(p) ==
    /\ NoExcludedComponent(p, excl)
    /\ \A q \in ProperPrefixes(p) : IsDirectory(Lookup(src, q)) /\ IsDirectory(Lookup(dst0, q))

KindMismatch(p) ==
    /\ Exists(Lookup(src, p)) /\ Exists(Lookup(dst0, p))
    /\ IsDirectory(Lookup(src, p)) # IsDirectory(Lookup(dst0, p))

\* C9: when a reached name is a file on one side and a directory on the
\* other, syncDir does not fail and the destination entry ends up with the
\* kind and content of the source entry.
C9_KindMismatchOverwritten ==
    (run = 1 /\ SyncFinished) =>
        \A p \in AllPaths :
            (Reached(p) /\ KindMismatch(p))
                => (pc = "done" /\ SameEntry(Lookup(src, p), Lookup(dst, p)))

\* An excluded entry all of whose ancestors in the destination are
\* non-excluded directories with a directory counterpart in the source.
Sheltered(p) ==
    /\ Last(p) \in excl
    /\ \A q \in ProperPrefixes(p) :
           /\ Last(q) \notin excl
           /\ IsDirectory(Lookup(dst0, q))
           /\ IsDirectory(Lookup(src, q))

\* C10: no step of syncDir changes the source tree, and every sheltered
\* excluded entry of the destination keeps its whole subtree.
C10_Frame ==
    /\ src = src0
    /\ \A p \in AllPaths : Sheltered(p) => Lookup(dst, p) = Lookup(dst0, p)

\* A sync returned that visited a destination directory holding an
\* excluded entry whose source namesake differs, and kept the entry.
C10_Witness ==
    /\ pc = "done"
    /\ \E p \in AllPaths :
           /\ Len(p) = 2 /\ Sheltered(p)
           /\ Exists(Lookup(dst0, p)) /\ Exists(Lookup(src, p))
           /\ Lookup(src, p) # Lookup(dst0, p)
           /\ Lookup(dst, p) = Lookup(dst0, p)

(***************************************************************************)
(* Properties of the run.                                                  *)
(***************************************************************************)
StepOrder == <<"sync", "npm", "version", "cache", "notify">>
FirstSyncReached == pc = "sync" \/ (log # <<>> /\ log[1].step = "sync")
BranchObtainedNotMain ==
    Exists(Child(dst0, ".git")) /\ gitResult \notin {"notrun", "error", "main"}
NothingDone == dst = dst0 /\ cache = cache0 /\ log = <<>> /\ requests = 0
SyncsInstallAndVersionOk == Len(log) >= 4 /\ \A i \in 1..4 : log[i].ok

\* C4: with version-control metadata, a branch obtained that is not main and
\* no --force, the run exits with code 1 and nothing was done; with --force
\* in the same situation the run goes on to the first sync.
C4_GuardRejection ==
    (pc # "guard" /\ BranchObtainedNotMain) =>
        /\ ~isForce => (pc = "exited" /\ exitCode = 1 /\ NothingDone)
        /\ isForce => FirstSyncReached

\* The guard rejected a run that had an installed entry to prune.
C4_Witness ==
    /\ pc = "exited" /\ BranchObtainedNotMain /\ ~isForce
    /\ \E n \in Names \ MarketplaceExcludes : Exists(Child(dst0, n)) /\ ~Exists(Child(src, n))

\* C5: without version-control metadata, or when the branch query fails, or
\* on main, the run goes on to the first sync whatever --force; the guard
\* ends the run only when a branch other than main was obtained without
\* --force.
C5_GuardBypass ==
    pc # "guard" =>
        /\ (~Exists(Child(dst0, ".git")) \/ gitResult \in {"error", "main"}) => FirstSyncReached
        /\ (pc = "exited" /\ log = <<>>) => (BranchObtainedNotMain /\ ~isForce)

\* The branch query failed, --force was not given, and the first sync ran
\* and changed the installed directory.
C5_Witness ==
    /\ gitResult = "error" /\ ~isForce
    /\ log # <<>> /\ log[1].step = "sync" /\ log[1].ok
    /\ dst # dst0

\* C7: the steps run in the order sync, npm install, version read, cache
\* sync, restart request, each only after the previous ones succeeded; a
\* failed step ends the process with code 1 with no later step and no restart
\* request; a manifest that is missing, malformed or without a version ends
\* it before the cache directory is touched.
C7_FailStop ==
    /\ pc = "guard" => NothingDone
    /\ Len(log) <= Len(StepOrder)
    /\ \A i \in 1..Len(log) : log[i].step = StepOrder[i]
    /\ \A i \in 1..(Len(log) - 1) : log[i].ok
    /\ (log # <<>> /\ ~log[Len(log)].ok) => (pc = "exited" /\ exitCode = 1 /\ requests = 0)
    /\ manifest \in {"missing", "malformed", "noversion"} =>
           /\ pc = "exited" /\ exitCode = 1
           /\ Len(log) = 3 /\ cache = cache0 /\ requests = 0

\* The manifest had no version: the run ended after the marketplace sync
\* had changed the installed directory, with a cache sync still to do.
C7_Witness ==
    /\ manifest = "noversion" /\ pc = "exited"
    /\ dst # dst0
    /\ Exists(Child(Child(src, "plugin"), "plugin")) /\ ~Exists(cache0)

\* C8: once both syncs, the install and the version read have succeeded, the
\* process ends, with exit code 0, whatever becomes of the restart request,
\* which is sent at most once.
C8_NotifyIsolated ==
    /\ [](requests <= 1)
    /\ []((pc = "exited" /\ SyncsInstallAndVersionOk) => exitCode = 0)
    /\ (SyncsInstallAndVersionOk ~> (pc = "exited" /\ exitCode = 0))

\* The restart request timed out after a run that changed both directories.
C8_Witness ==
    /\ pc = "exited" /\ exitCode = 0 /\ outcome = "timeout" /\ requests = 1
    /\ dst # dst0 /\ cache # cache0
====
